---- MODULE Spec2Model ----
(***************************************************************************)
(* Model of the AEROVANT acquisition-and-logging loop                      *)
(* (DataCollector._read_sensors and DataCollector.collect_and_log_data)    *)
(* in its three variants: MQ135.py, data_collection.py and                 *)
(* data_collection1.py.                                                    *)
(*                                                                         *)
(* One behaviour is one collector process writing to one output path.      *)
(* The statement the process is about to execute is pc.  Inputs (ADC       *)
(* values, DHT outcomes, I/O faults, external changes of the file, an      *)
(* external kill followed by a new run) are chosen nondeterministically.   *)
(***************************************************************************)
EXTENDS Integers, Sequences, FiniteSets, TLC

\* ------------------------------------------------------------------ bounds
MaxCycles == 2     \* loop iterations explored in one behaviour
MaxRuns == 2       \* sequential runs of the collector on the same path
MaxExternal == 1   \* changes made to the file by somebody else

\* ------------------------------------------------------- program constants
TRUE_PPM_VALUE == 100
Raw16Max == 65535
AdcDivisor == 64

Variants == {"MQ135", "data_collection", "data_collection1"}

\* self.sensor_channels / self.sensor_channel, in dict insertion order
sensor_channels(v) ==
    IF v = "MQ135" THEN <<"MQ135_adc">>
    ELSE <<"MQ2_adc", "MQ4_adc", "MQ5_adc", "MQ9_adc", "MQ135_adc">>

\* the channel the i-th iteration of "for name, channel in ...items()" reads
ChannelAtReversed(v, i) == sensor_channels(v)[Len(sensor_channels(v)) + 1 - i]
ChannelAt(v, i) == sensor_channels(v)[i]

\* the variants that keep the header decision in the local header_needed
HasHeaderFlag(v) == v \in {"MQ135", "data_collection1"}

\* ------------------------------------------------------------------ values
None == [type |-> "None", val |-> 0]
IntVal(n) == [type |-> "int", val |-> n]
FloatVal(n) == [type |-> "float", val |-> n]

\* Python's float(x) for a numeric x
KeepType(x) == x
ToFloat(x) == [type |-> "float", val |-> x.val]

\* what the DHT driver can hand back for one property access
TempVals == {IntVal(24), FloatVal(25)}
HumVals == {IntVal(55)}

\* the raw16 value present on every ADC input during one cycle, by channel
AdcLevels ==
    { [i \in 1..5 |-> 0],
      [i \in 1..5 |-> Raw16Max],
      [i \in 1..5 |-> 64 * i + 63] }

\* channel.value // 64
Conv10Rounding(raw16) == (raw16 + 32) \div AdcDivisor
Conv10(raw16) == raw16 \div AdcDivisor

\* the value _read_sensors stores for a channel
StoredCode(v, raw16) == IF v = "data_collection" THEN raw16 ELSE Conv10(raw16)

\* ------------------------------------------------------------------- state
VARIABLES
    variant,        \* which script is running
    intervalOk,     \* time.sleep accepts sample_interval (it is not negative)
    file,           \* the output path: [exists, lines]
    pc,             \* the statement the process executes next
    run,            \* number of the current run on this path
    cycle,          \* number of the current loop iteration; also the clock
    adc,            \* raw16 level on each ADC input during this cycle
    header_needed,  \* local of collect_and_log_data (MQ135, data_collection1)
    header,         \* local of collect_and_log_data (data_collection)
    chanIdx,        \* position of the iteration over sensor_channels
    raw_readings,   \* local of _read_sensors
    temperature,    \* local of _read_sensors
    humidity,       \* local of _read_sensors
    sensor_data,    \* local of collect_and_log_data, kept across iterations
    data_point,     \* local of collect_and_log_data, kept across iterations
    log,            \* events logged since the start of the current cycle
    cyc,            \* what happened in the current cycle
    runh,           \* what happened in the current run
    ext,            \* external changes of the file so far
    dropped,        \* cycles whose to_csv raised
    past,           \* what happened in the previous cycle of this run
    w2,             \* a second collector process on the same path
    cv              \* inputs and outputs of the conversion harness

locals == <<header_needed, header, chanIdx, raw_readings, temperature,
            humidity, sensor_data, data_point>>
params == <<variant, intervalOk, cv, w2>>
vars == <<variant, intervalOk, file, pc, run, cycle, adc, header_needed,
          header, chanIdx, raw_readings, temperature, humidity, sensor_data,
          data_point, log, cyc, runh, ext, dropped, past, cv, w2>>

Unbound == [type |-> "unbound", val |-> 0]
NoData == [raw_adc_readings |-> <<>>, temperature |-> Unbound,
           humidity |-> Unbound]
NoFile == [exists |-> FALSE, lines |-> <<>>]
EmptyFile == [exists |-> TRUE, lines |-> <<>>]
NewCycle == [sleepCalls |-> 0, envRaised |-> FALSE, built |-> FALSE,
             rows |-> 0, headers |-> 0, touched |-> FALSE, read16 |-> <<>>,
             temp |-> Unbound, hum |-> Unbound, stages |-> <<>>,
             branch |-> "none"]
NewRun == [existed |-> FALSE, owedAtStart |-> FALSE, rows |-> 0,
           headers |-> 0, firstArg |-> FALSE, fault |-> FALSE, ext |-> FALSE]
\* the second process: not started
NoWriter == [pc |-> "off", header_needed |-> FALSE, header |-> FALSE,
             rows |-> 0, headers |-> 0, firstArg |-> FALSE]
\* what is kept of a cycle once the next one has started
Summary(c) == [read16 |-> c.read16, envRaised |-> c.envRaised,
               branch |-> c.branch]
NoCycle == Summary(NewCycle)
IdleConv == [a |-> 0, b |-> 0, outA |-> 0, outB |-> 0, done |-> FALSE]

\* the process before collect_and_log_data has run a statement
FreshProcess ==
    /\ pc = "start"
    /\ header_needed = FALSE
    /\ header = FALSE
    /\ chanIdx = 1
    /\ raw_readings = <<>>
    /\ temperature = Unbound
    /\ humidity = Unbound
    /\ sensor_data = NoData
    /\ data_point = <<>>
    /\ log = <<>>
    /\ cyc = NewCycle
    /\ runh = NewRun
    /\ past = NoCycle

Init ==
    /\ variant \in Variants
    /\ intervalOk \in BOOLEAN
    /\ file \in {NoFile, EmptyFile}
    /\ run = 1
    /\ cycle = 0
    /\ adc = [i \in 1..5 |-> 0]
    /\ ext = 0
    /\ dropped = {}
    /\ cv = IdleConv
    /\ w2 = NoWriter
    /\ FreshProcess

\* ------------------------------------------------------- record and file
\* data_point: the dict literal, keys in insertion order
BuildChannelsFirst(v, now, sd) ==
    sd.raw_adc_readings \o
    << <<"timestamp", now>>, <<"true_ppm", TRUE_PPM_VALUE>>,
       <<"temp_c", sd.temperature>>, <<"hum_pct", sd.humidity>> >>
BuildDataPoint(v, now, sd) ==
    << <<"timestamp", now>>,
       <<"true_ppm", TRUE_PPM_VALUE>>,
       <<"temp_c", IF v = "MQ135" THEN ToFloat(sd.temperature)
                   ELSE sd.temperature>>,
       <<"hum_pct", IF v = "MQ135" THEN ToFloat(sd.humidity)
                    ELSE sd.humidity>> >>
    \o sd.raw_adc_readings

Columns(dp) == [i \in 1..Len(dp) |-> dp[i][1]]
HeaderLine(dp) == [kind |-> "header", cells |-> Columns(dp)]
RowLine(dp) == [kind |-> "row", cells |-> dp]

\* pd.DataFrame([data_point]).to_csv(log_file, mode='a', header=hdr, index=False)
\* when it succeeds: the file is created if absent, lines are added at the end
ToCsvGuarded(f, dp, hdr) ==
    [exists |-> TRUE,
     lines |-> f.lines
               \o (IF hdr /\ f.lines = <<>> THEN <<HeaderLine(dp)>> ELSE <<>>)
               \o <<RowLine(dp)>>]
ToCsv(f, dp, hdr) ==
    [exists |-> TRUE,
     lines |-> f.lines \o (IF hdr THEN <<HeaderLine(dp)>> ELSE <<>>)
                       \o <<RowLine(dp)>>]

\* pd.io.common.file_exists(log_file)
file_exists(f) == f.exists

\* not pd.io.common.file_exists(log_file)
HeaderOwedAlways(f) == TRUE
HeaderOwed(f) == ~file_exists(f)

\* ---------------------------------------------------------------- actions
\* collect_and_log_data up to the loop
Start ==
    /\ pc = "start"
    /\ log' = <<"info_start">>
    /\ header_needed' = IF HasHeaderFlag(variant) THEN HeaderOwed(file)
                        ELSE header_needed
    /\ runh' = [NewRun EXCEPT !.existed = file.exists,
                              !.owedAtStart = ~file.exists]
    /\ pc' = "loop_top"
    /\ UNCHANGED <<params, file, run, cycle, adc, header, chanIdx,
                   raw_readings, temperature, humidity, sensor_data,
                   data_point, cyc, ext, dropped, past>>

\* while True: try: sensor_data = self._read_sensors()   (the call)
LoopTop ==
    /\ pc = "loop_top"
    /\ cycle < MaxCycles
    /\ cycle' = cycle + 1
    /\ adc' \in AdcLevels
    /\ raw_readings' = <<>>
    /\ temperature' = Unbound
    /\ humidity' = Unbound
    /\ chanIdx' = 1
    /\ log' = <<>>
    /\ cyc' = NewCycle
    /\ past' = Summary(cyc)
    /\ pc' = "read_channels"
    /\ UNCHANGED <<params, file, run, header_needed, header, sensor_data,
                   data_point, runh, ext, dropped>>

\* one iteration of the loop over the channels: channel.value returns
ReadChannel ==
    /\ pc = "read_channels"
    /\ LET name == ChannelAt(variant, chanIdx)
           raw16 == adc[chanIdx]
       IN /\ raw_readings' =
                Append(raw_readings, <<name, StoredCode(variant, raw16)>>)
          /\ cyc' = [cyc EXCEPT !.read16 = Append(@, raw16),
                                !.stages = Append(@, name)]
    /\ chanIdx' = chanIdx + 1
    /\ pc' = IF chanIdx = Len(sensor_channels(variant)) THEN "read_temp"
             ELSE "read_channels"
    /\ UNCHANGED <<params, file, run, cycle, adc, header_needed, header,
                   temperature, humidity, sensor_data, data_point, log, runh,
                   ext, dropped, past>>

\* channel.value raises (bus error): propagates to the loop's except
ReadChannelFault ==
    /\ pc = "read_channels"
    /\ pc' = "except"
    /\ cyc' = [cyc EXCEPT !.branch = "caught"]
    /\ runh' = [runh EXCEPT !.fault = TRUE]
    /\ UNCHANGED <<params, file, run, cycle, adc, locals, log, ext, dropped,
                   past>>

\* what _read_sensors returns, assigned to sensor_data by the caller
ReturnedFirstReadings(rr, t, h) ==
    [raw_adc_readings |-> IF sensor_data.raw_adc_readings = <<>> THEN rr
                          ELSE sensor_data.raw_adc_readings,
     temperature |-> t, humidity |-> h]
Returned(rr, t, h) ==
    [raw_adc_readings |-> rr, temperature |-> t, humidity |-> h]

\* except RuntimeError: temperature = None
TempKept(t) == t
TempAfterRuntimeError(t) == None

\* where control is after the except RuntimeError clause: _read_sensors
\* returns and the loop tests the values
RuntimeErrorEscapes == "except"
AfterRuntimeError == "check"

\* temperature = self.dht.temperature returns a value (or None)
ReadTemperature ==
    /\ pc = "read_temp"
    /\ temperature' \in TempVals \cup {None}
    /\ cyc' = [cyc EXCEPT !.temp = temperature',
                          !.stages = Append(@, "temp")]
    /\ pc' = "read_hum"
    /\ UNCHANGED <<params, file, run, cycle, adc, header_needed, header,
                   chanIdx, raw_readings, humidity, sensor_data, data_point,
                   log, runh, ext, dropped, past>>

\* self.dht.temperature raises RuntimeError: the except clause of
\* _read_sensors, then the return
ReadTemperatureRuntimeError ==
    /\ pc = "read_temp"
    /\ log' = Append(log, "warning_dht")
    /\ temperature' = TempAfterRuntimeError(temperature)
    /\ humidity' = None
    /\ sensor_data' = Returned(raw_readings, temperature', humidity')
    /\ cyc' = [cyc EXCEPT !.envRaised = TRUE,
                          !.stages = Append(@, "temp")]
    /\ pc' = AfterRuntimeError
    /\ UNCHANGED <<params, file, run, cycle, adc, header_needed, header,
                   chanIdx, raw_readings, data_point, runh, ext, dropped,
                   past>>

\* humidity = self.dht.humidity returns a value (or None), then the return
ReadHumidity ==
    /\ pc = "read_hum"
    /\ humidity' \in HumVals \cup {None}
    /\ cyc' = [cyc EXCEPT !.hum = humidity',
                          !.stages = Append(@, "hum")]
    /\ sensor_data' = Returned(raw_readings, temperature, humidity')
    /\ pc' = "check"
    /\ UNCHANGED <<params, file, run, cycle, adc, header_needed, header,
                   chanIdx, raw_readings, temperature, data_point, log, runh,
                   ext, dropped, past>>

\* self.dht.humidity raises RuntimeError
ReadHumidityRuntimeError ==
    /\ pc = "read_hum"
    /\ log' = Append(log, "warning_dht")
    /\ temperature' = TempAfterRuntimeError(temperature)
    /\ humidity' = None
    /\ sensor_data' = Returned(raw_readings, temperature', humidity')
    /\ cyc' = [cyc EXCEPT !.envRaised = TRUE,
                          !.stages = Append(@, "hum")]
    /\ pc' = AfterRuntimeError
    /\ UNCHANGED <<params, file, run, cycle, adc, header_needed, header,
                   chanIdx, raw_readings, data_point, runh, ext, dropped,
                   past>>

\* a DHT access raises something that is not a RuntimeError: it leaves
\* _read_sensors and reaches the loop's except
ReadEnvOtherFault ==
    /\ pc \in {"read_temp", "read_hum"}
    /\ pc' = "except"
    /\ cyc' = [cyc EXCEPT !.branch = "caught",
                          !.stages = Append(@, IF pc = "read_temp"
                                               THEN "temp" ELSE "hum")]
    /\ runh' = [runh EXCEPT !.fault = TRUE]
    /\ UNCHANGED <<params, file, run, cycle, adc, locals, log, ext, dropped,
                   past>>

\* if temperature is None or humidity is None: warning, on to the sleep
IsSkipTemperatureOnly(sd) == sd.temperature = None
IsSkipNever(sd) == FALSE
IsSkip(sd) == sd.temperature = None \/ sd.humidity = None

CheckSkip ==
    /\ pc = "check"
    /\ IsSkip(sensor_data)
    /\ log' = Append(log, "warning_skip")
    /\ cyc' = [cyc EXCEPT !.branch = "skipped",
                          !.stages = Append(@, "skip")]
    /\ pc' = "sleep_skip"
    /\ UNCHANGED <<params, file, run, cycle, adc, locals, runh, ext, dropped,
                   past>>

\* data_point = {...}
Build ==
    /\ pc = "check"
    /\ ~IsSkip(sensor_data)
    /\ data_point' = BuildDataPoint(variant, cycle, sensor_data)
    /\ cyc' = [cyc EXCEPT !.built = TRUE, !.stages = Append(@, "build")]
    /\ pc' = IF variant = "data_collection" THEN "file_exists" ELSE "log_info"
    /\ UNCHANGED <<params, file, run, cycle, adc, header_needed, header,
                   chanIdx, raw_readings, temperature, humidity, sensor_data,
                   log, runh, ext, dropped, past>>

\* building the record raises
BuildFault ==
    /\ pc = "check"
    /\ ~IsSkip(sensor_data)
    /\ pc' = "except"
    /\ cyc' = [cyc EXCEPT !.branch = "caught"]
    /\ runh' = [runh EXCEPT !.fault = TRUE]
    /\ UNCHANGED <<params, file, run, cycle, adc, locals, log, ext, dropped,
                   past>>

\* logger.info("Logged new data point ...")
LogInfo ==
    /\ pc = "log_info"
    /\ log' = Append(log, "info_logged")
    /\ pc' = IF variant = "data_collection" THEN "sleep_end" ELSE "to_csv"
    /\ UNCHANGED <<params, file, run, cycle, adc, locals, cyc, runh, ext,
                   dropped, past>>

\* data_collection.py: header = not pd.io.common.file_exists(log_file)
FileExists ==
    /\ pc = "file_exists"
    /\ header' = HeaderOwed(file)
    /\ pc' = "to_csv"
    /\ UNCHANGED <<params, file, run, cycle, adc, header_needed, chanIdx,
                   raw_readings, temperature, humidity, sensor_data,
                   data_point, log, cyc, runh, ext, dropped, past>>

\* the header argument of to_csv
HeaderArg == IF HasHeaderFlag(variant) THEN header_needed ELSE header

\* if header_needed: header_needed = False
FlagKept(v, hn) == hn
FlagAfterWrite(v, hn) == IF HasHeaderFlag(v) THEN FALSE ELSE hn

\* header_needed when to_csv raised: the statements after it are not reached
FlagClearedEarly(v, hn) == IF HasHeaderFlag(v) THEN FALSE ELSE hn
FlagAfterFault(v, hn) == hn

\* where control goes after the sleep of the skip branch: continue
SkipSleepFallsThrough == "sleep_end"
AfterSkipSleep == "loop_top"

\* where control goes after the except clause: the statement after the try
ExceptReraises == "terminated"
AfterExcept == "sleep_end"

\* df_point.to_csv(...) succeeds, then the statement(s) after it
ToCsvOk ==
    /\ pc = "to_csv"
    /\ file' = ToCsv(file, data_point, HeaderArg)
    /\ header_needed' = FlagAfterWrite(variant, header_needed)
    /\ cyc' = [cyc EXCEPT !.rows = @ + 1,
                          !.headers = @ + (IF HeaderArg THEN 1 ELSE 0),
                          !.touched = TRUE,
                          !.stages = Append(@, "append"),
                          !.branch = "appended"]
    /\ runh' = [runh EXCEPT !.rows = @ + 1,
                            !.headers = @ + (IF HeaderArg THEN 1 ELSE 0),
                            !.firstArg = IF runh.rows = 0 THEN HeaderArg
                                         ELSE @]
    /\ pc' = IF variant = "data_collection" THEN "log_info" ELSE "sleep_end"
    /\ UNCHANGED <<params, run, cycle, adc, header, chanIdx, raw_readings,
                   temperature, humidity, sensor_data, data_point, log, ext,
                   dropped, past>>

\* df_point.to_csv(...) raises: the open failed (nothing changes), or the
\* file was opened for append (created if absent) and the write failed
ToCsvFault ==
    /\ pc = "to_csv"
    /\ file' \in {file, [exists |-> TRUE, lines |-> file.lines]}
    /\ header_needed' = FlagAfterFault(variant, header_needed)
    /\ dropped' = dropped \cup {cycle}
    /\ cyc' = [cyc EXCEPT !.branch = "caught", !.touched = TRUE,
                          !.stages = Append(@, "append")]
    /\ runh' = [runh EXCEPT !.fault = TRUE]
    /\ pc' = "except"
    /\ UNCHANGED <<params, run, cycle, adc, header, chanIdx, raw_readings,
                   temperature, humidity, sensor_data, data_point, log, ext,
                   past>>

\* except Exception as e: logger.error(...)
Except ==
    /\ pc = "except"
    /\ log' = Append(log, "error")
    /\ pc' = AfterExcept
    /\ UNCHANGED <<params, file, run, cycle, adc, locals, cyc, runh, ext,
                   dropped, past>>

\* time.sleep(sample_interval); continue   (inside the try)
SleepSkip ==
    /\ pc = "sleep_skip"
    /\ cyc' = [cyc EXCEPT !.sleepCalls = @ + 1,
                          !.stages = Append(@, "sleep"),
                          !.branch = IF intervalOk THEN @ ELSE "caught"]
    /\ pc' = IF intervalOk THEN AfterSkipSleep ELSE "except"
    /\ UNCHANGED <<params, file, run, cycle, adc, locals, log, runh, ext,
                   dropped, past>>

\* time.sleep(sample_interval)   (after the try statement)
SleepEnd ==
    /\ pc = "sleep_end"
    /\ cyc' = [cyc EXCEPT !.sleepCalls = @ + 1,
                          !.stages = Append(@, "sleep")]
    /\ pc' = IF intervalOk THEN "loop_top" ELSE "terminated"
    /\ UNCHANGED <<params, file, run, cycle, adc, locals, log, runh, ext,
                   dropped, past>>

\* ------------------------------------------------------------ environment
Sleeping == pc \in {"sleep_skip", "sleep_end"}

\* somebody else removes the file while the collector sleeps
ExternalDelete ==
    /\ Sleeping
    /\ ext < MaxExternal
    /\ file.exists
    /\ file' = NoFile
    /\ ext' = ext + 1
    /\ runh' = [runh EXCEPT !.ext = TRUE]
    /\ UNCHANGED <<params, pc, run, cycle, adc, locals, log, cyc, dropped,
                   past>>

\* somebody else creates the (empty) file while the collector sleeps
ExternalCreate ==
    /\ Sleeping
    /\ ext < MaxExternal
    /\ ~file.exists
    /\ file' = EmptyFile
    /\ ext' = ext + 1
    /\ runh' = [runh EXCEPT !.ext = TRUE]
    /\ UNCHANGED <<params, pc, run, cycle, adc, locals, log, cyc, dropped,
                   past>>

\* the process is stopped from outside (or has died) and the collector is
\* started again on the same path
Kill ==
    /\ Sleeping \/ pc = "terminated"
    /\ run < MaxRuns
    /\ run' = run + 1
    /\ pc' = "start"
    /\ header_needed' = FALSE
    /\ header' = FALSE
    /\ chanIdx' = 1
    /\ raw_readings' = <<>>
    /\ temperature' = Unbound
    /\ humidity' = Unbound
    /\ sensor_data' = NoData
    /\ data_point' = <<>>
    /\ log' = <<>>
    /\ cyc' = NewCycle
    /\ runh' = NewRun
    /\ past' = NoCycle
    /\ UNCHANGED <<params, file, cycle, adc, ext, dropped>>

\* ----------------------------------------------------------- specification
LoopStep ==
    \/ Start
    \/ LoopTop
    \/ ReadChannel
    \/ ReadChannelFault
    \/ ReadTemperature
    \/ ReadTemperatureRuntimeError
    \/ ReadHumidity
    \/ ReadHumidityRuntimeError
    \/ ReadEnvOtherFault
    \/ CheckSkip
    \/ Build
    \/ BuildFault
    \/ LogInfo
    \/ FileExists
    \/ ToCsvOk
    \/ ToCsvFault
    \/ Except
    \/ SleepSkip
    \/ SleepEnd

Next ==
    \/ LoopStep
    \/ ExternalDelete
    \/ ExternalCreate
    \/ Kill

Spec == Init /\ [][Next]_vars

\* one uninterrupted run: the interpreter always executes the next statement
\* of the loop, and nothing outside the process intervenes
FairSpec == Init /\ [][LoopStep]_vars /\ WF_vars(LoopStep)

\* ------------------------------------------------------ two collectors
\* A second process running the same script on the same path.  Only its
\* statements that read or write the file are steps of their own; its sensor
\* reads always succeed with the same values.
MaxAppends2 == 1

SensorData2 ==
    Returned([i \in 1..Len(sensor_channels(variant)) |->
                 <<ChannelAt(variant, i), 0>>],
             IntVal(24), IntVal(55))

\* header_needed = not pd.io.common.file_exists(log_file)
Start2 ==
    /\ w2.pc = "start"
    /\ w2' = [w2 EXCEPT !.pc = "cycle",
                        !.header_needed = IF HasHeaderFlag(variant)
                                          THEN HeaderOwed(file) ELSE @]
    /\ UNCHANGED <<variant, intervalOk, cv, file, pc, run, cycle, adc,
                   locals, log, cyc, runh, ext, dropped, past>>

\* one iteration up to the call of to_csv (data_collection.py: with
\* header = not pd.io.common.file_exists(log_file))
Cycle2 ==
    /\ w2.pc = "cycle"
    /\ w2.rows < MaxAppends2
    /\ w2' = [w2 EXCEPT !.pc = "to_csv",
                        !.header = IF HasHeaderFlag(variant) THEN @
                                   ELSE HeaderOwed(file)]
    /\ UNCHANGED <<variant, intervalOk, cv, file, pc, run, cycle, adc,
                   locals, log, cyc, runh, ext, dropped, past>>

\* df_point.to_csv(...), then "if header_needed: header_needed = False"
ToCsv2 ==
    /\ w2.pc = "to_csv"
    /\ LET arg == IF HasHeaderFlag(variant) THEN w2.header_needed
                  ELSE w2.header
       IN /\ file' = ToCsv(file, BuildDataPoint(variant, cycle, SensorData2),
                           arg)
          /\ w2' = [w2 EXCEPT
                      !.pc = "cycle",
                      !.header_needed = FlagAfterWrite(variant, @),
                      !.rows = @ + 1,
                      !.headers = @ + (IF arg THEN 1 ELSE 0),
                      !.firstArg = IF w2.rows = 0 THEN arg ELSE @]
    /\ UNCHANGED <<variant, intervalOk, cv, pc, run, cycle, adc, locals, log,
                   cyc, runh, ext, dropped, past>>

InitTwo ==
    /\ variant \in Variants
    /\ intervalOk = TRUE
    /\ file = NoFile
    /\ run = 1
    /\ cycle = 0
    /\ adc = [i \in 1..5 |-> 0]
    /\ ext = 0
    /\ dropped = {}
    /\ cv = IdleConv
    /\ w2 = [NoWriter EXCEPT !.pc = "start"]
    /\ FreshProcess

\* the first collector, for as many iterations as the second one
LoopStepTwo == LoopStep /\ cycle' <= MaxAppends2

NextTwo ==
    \/ LoopStepTwo
    \/ Start2
    \/ Cycle2
    \/ ToCsv2

\* two processes started on the same absent path, steps interleaved freely
SpecTwo == InitTwo /\ [][NextTwo]_vars

\* ------------------------------------------------------ conversion harness
\* channel.value // 64 applied to a pair of raw16 values, a <= b
ConvOffsets == {0, 1, 64}
Min(x, y) == IF x <= y THEN x ELSE y

InitConv ==
    /\ \E a \in 0..Raw16Max : \E d \in ConvOffsets :
          cv = [IdleConv EXCEPT !.a = a, !.b = Min(a + d, Raw16Max)]
    /\ variant = "data_collection1"
    /\ intervalOk = TRUE
    /\ file = NoFile
    /\ run = 1
    /\ cycle = 0
    /\ adc = [i \in 1..5 |-> 0]
    /\ ext = 0
    /\ dropped = {}
    /\ w2 = NoWriter
    /\ FreshProcess

Convert ==
    /\ ~cv.done
    /\ cv' = [cv EXCEPT !.outA = Conv10(cv.a), !.outB = Conv10(cv.b),
                        !.done = TRUE]
    /\ UNCHANGED <<variant, intervalOk, w2, file, pc, run, cycle, adc, locals,
                   log, cyc, runh, ext, dropped, past>>

NextConv == Convert

SpecConv == InitConv /\ [][NextConv]_vars

\* ------------------------------------------------------------ observations
IsHeader(l) == l.kind = "header"
IsRow(l) == l.kind = "row"
HeaderCount(f) == Cardinality({i \in 1..Len(f.lines) : IsHeader(f.lines[i])})
\* the timestamp cell of a data row
Timestamp(l) == l.cells[1][2]
\* the run started, has only had successful and skipped cycles, and nobody
\* else touched the file
QuietRun == pc # "start" /\ ~runh.fault /\ ~runh.ext
\* the loop is back at "while True" after a cycle of this run
CycleOver == pc = "loop_top" /\ cyc.branch # "none"

\* ------------------------------------------------------------------ claims

C3_FailureIsolation ==
    cyc.envRaised =>
        /\ ~cyc.built
        /\ ~cyc.touched
        /\ cyc.rows = 0 /\ cyc.headers = 0
        /\ pc \notin {"file_exists", "log_info", "to_csv"}
        /\ CycleOver => cyc.sleepCalls = 1

\* the second cycle failed its environmental read after the first one wrote
C3_Witness ==
    /\ CycleOver /\ cyc.envRaised /\ cyc.sleepCalls = 1
    /\ cycle = 2 /\ run = 1 /\ Len(file.lines) = 2

\* C4 (cadence): whichever way a cycle ended (row appended, skipped, or an
\* exception caught), exactly one time.sleep call was made in it when the
\* loop is back at its top, and no sleep precedes the cycle's sensor reads.
C4_Cadence ==
    /\ CycleOver => cyc.sleepCalls = 1
    /\ pc \in {"read_channels", "read_temp", "read_hum", "check"}
          => cyc.sleepCalls = 0

\* a cycle with a caught exception after a cycle that appended a row
C4_Witness ==
    /\ CycleOver /\ cyc.branch = "caught" /\ cyc.sleepCalls = 1
    /\ run = 1 /\ runh.rows = 1

\* C5 (no fault escapes the loop): with an interval time.sleep accepts, no
\* fault of a channel read, of the environmental read, of the record
\* construction or of the append ever terminates the loop; every cycle that
\* started its channel reads reaches its sleep, and the sleep is followed by
\* the next cycle's channel reads.
C5_NoFaultEscapes ==
    /\ [](intervalOk => pc # "terminated")
    /\ \A k \in 1..MaxCycles :
          (intervalOk /\ cycle = k /\ pc = "read_channels")
              ~> (cycle = k /\ Sleeping)
    /\ \A k \in 1..(MaxCycles - 1) :
          (intervalOk /\ cycle = k /\ Sleeping)
              ~> (cycle = k + 1 /\ pc = "read_channels")

\* the append of the last cycle raised, and the loop is back at its top
C5_Witness ==
    /\ CycleOver /\ intervalOk
    /\ cyc.branch = "caught"
    /\ cycle \in dropped

\* C6 (schema stability): every header row and every data row of the file
\* has the fields timestamp, true_ppm, temp_c, hum_pct and then the
\* configured channels, in this order.
C6_SchemaStability ==
    LET expected ==
            <<"timestamp", "true_ppm", "temp_c", "hum_pct">> \o
            (IF variant = "MQ135" THEN <<"MQ135_adc">>
             ELSE <<"MQ2_adc", "MQ4_adc", "MQ5_adc", "MQ9_adc", "MQ135_adc">>)
    IN \A i \in 1..Len(file.lines) :
          /\ IsHeader(file.lines[i]) => file.lines[i].cells = expected
          /\ IsRow(file.lines[i]) => Columns(file.lines[i].cells) = expected

\* a five-channel collector has written a header and two rows
C6_Witness ==
    /\ variant = "data_collection1"
    /\ Len(file.lines) = 3
    /\ IsHeader(file.lines[1]) /\ IsRow(file.lines[2]) /\ IsRow(file.lines[3])
    /\ runh.rows = 2

\* C7 (channel range): in every variant every channel value of an appended
\* row is in 0..1023 and is raw16 \div 64 of the value read for that channel
\* in the same cycle.
C7_ChannelRange ==
    /\ \A i \in 1..Len(file.lines) :
          IsRow(file.lines[i]) =>
              \A j \in 5..Len(file.lines[i].cells) :
                  file.lines[i].cells[j][2] \in 0..1023
    /\ \A i \in 1..Len(file.lines) :
          (IsRow(file.lines[i]) /\ Timestamp(file.lines[i]) = cycle
             /\ cyc.rows = 1) =>
              \A j \in 1..Len(cyc.read16) :
                  file.lines[i].cells[4 + j][2] = cyc.read16[j] \div 64

\* the channel-range property restricted to the two variants that convert
ConvertingVariantsInRange == variant # "data_collection" => C7_ChannelRange

\* C8 (conversion range): raw16 \div 64 is in 0..1023 for raw16 in
\* 0..65535, is monotonic non-decreasing, truncates, maps 65535 to 1023 and
\* 0 to 0.
C8_ConversionRange ==
    cv.done =>
        /\ cv.outA \in 0..1023
        /\ cv.a <= cv.b => cv.outA <= cv.outB
        /\ 64 * cv.outA <= cv.a /\ cv.a < 64 * cv.outA + 64
        /\ cv.a = 65535 => cv.outA = 1023
        /\ cv.a = 0 => cv.outA = 0

\* the largest input was converted
C8_Witness == cv.done /\ cv.a = 65535 /\ cv.outA = 1023

\* C9 (header decision made once): the header argument of every append is
\* what the existence of the file at the start of the run decided (a header
\* is owed until one was written), whatever happened to the file since; so
\* no run emits a header twice.
C9_HeaderDecidedOnce ==
    /\ pc = "to_csv" => HeaderArg = (runh.owedAtStart /\ runh.headers = 0)
    /\ runh.headers <= 1

\* the decided-once property restricted to the variants with header_needed
FlagVariantsDecideOnce == HasHeaderFlag(variant) => C9_HeaderDecidedOnce

\* C10 (persistence fault): when to_csv raises, no line is added and
\* header_needed keeps its value; the record of that cycle is in the file in
\* no later state; an error is logged; the loop reaches the top again after
\* one sleep; and an append to a file absent since the start of the run
\* still carries the header.
C10_PersistenceFault ==
    /\ [][(pc = "to_csv" /\ pc' = "except") =>
            /\ file'.lines = file.lines
            /\ header_needed' = header_needed
            /\ cycle \in dropped']_vars
    /\ [](\A i \in 1..Len(file.lines) :
            IsRow(file.lines[i]) => Timestamp(file.lines[i]) \notin dropped)
    /\ []((cycle \in dropped /\ pc \in {"sleep_end", "loop_top"}
             /\ cyc.branch = "caught") => log[Len(log)] = "error")
    /\ []((cycle \in dropped /\ CycleOver) => cyc.sleepCalls = 1)
    /\ []((pc = "to_csv" /\ runh.owedAtStart /\ runh.headers = 0
             /\ ~file.exists) => HeaderArg)

\* the first append raised on an absent file, the second one succeeded and
\* wrote the header and its own row
C10_Witness ==
    /\ dropped = {1} /\ cycle = 2 /\ run = 1
    /\ HasHeaderFlag(variant)
    /\ runh.headers = 1 /\ runh.rows = 1
    /\ Len(file.lines) = 2 /\ Timestamp(file.lines[2]) = 2

\* C11 (end-to-end scenario): MQ135.py on a fresh path; cycle 1 read raw16 =
\* 65535 and its environmental read raised; cycle 2 read raw16 = 0,
\* temperature 24 and humidity 55.  After cycle 2 the file is the header
\* followed by one row (timestamp, 100, 24.0, 55.0, 0).
C11_ScenarioCase ==
    /\ variant = "MQ135" /\ run = 1 /\ QuietRun /\ ~runh.existed
    /\ cycle = 2 /\ CycleOver
    /\ past.read16 = <<65535>> /\ past.envRaised
    /\ cyc.read16 = <<0>>
    /\ cyc.temp.val = 24 /\ cyc.temp.type # "None"
    /\ cyc.hum.val = 55 /\ cyc.hum.type # "None"

C11_Scenario ==
    C11_ScenarioCase =>
        file = [exists |-> TRUE,
                lines |-> << [kind |-> "header",
                              cells |-> <<"timestamp", "true_ppm", "temp_c",
                                          "hum_pct", "MQ135_adc">>],
                             [kind |-> "row",
                              cells |-> << <<"timestamp", 2>>,
                                           <<"true_ppm", 100>>,
                                           <<"temp_c", FloatVal(24)>>,
                                           <<"hum_pct", FloatVal(55)>>,
                                           <<"MQ135_adc", 0>> >>] >>]

\* the scenario has run to the end of cycle 2 and the row is in the file
C11_Witness == C11_ScenarioCase /\ Len(file.lines) = 2 /\ cyc.rows = 1

\* C12 (stage ordering): in every cycle the channels are read in the
\* configured order, all of them before the first access to the
\* environmental sensor; a failed environmental read is followed by the skip
\* branch and never by a build, a successful one by the build; the append
\* follows the build and nothing but the sleep follows the append.
C12_StageOrdering ==
    LET st == cyc.stages
        chans == sensor_channels(variant)
        n == Len(chans)
        names == {chans[k] : k \in 1..n}
        bothRead == cyc.temp \in TempVals /\ cyc.hum \in HumVals
    IN /\ \A i \in 1..Len(st) :
             /\ st[i] \in names => (i <= n /\ st[i] = chans[i])
             /\ st[i] \in {"temp", "hum"} =>
                   (i > n /\ \A k \in 1..n : st[k] = chans[k])
             /\ st[i] = "temp" => i = n + 1
             /\ st[i] = "hum" => (i = n + 2 /\ st[i - 1] = "temp")
             /\ st[i] = "skip" => (i > 1 /\ st[i - 1] \in {"temp", "hum"})
             /\ st[i] = "build" => (i > 1 /\ st[i - 1] = "hum" /\ bothRead)
             /\ st[i] = "append" =>
                   /\ i > 1 /\ st[i - 1] = "build"
                   /\ i < Len(st) => st[i + 1] = "sleep"
       /\ cyc.envRaised =>
             /\ \A i \in 1..Len(st) : st[i] \notin {"build", "append"}
             /\ pc # "check" => \E i \in 1..Len(st) : st[i] = "skip"
       /\ (bothRead /\ pc # "check" /\ cyc.branch # "caught") =>
             \E i \in 1..Len(st) : st[i] = "build"

\* a five-channel cycle went through all its stages
C12_Witness ==
    /\ variant = "data_collection1"
    /\ cyc.stages = <<"MQ2_adc", "MQ4_adc", "MQ5_adc", "MQ9_adc", "MQ135_adc",
                      "temp", "hum", "build", "append", "sleep">>

\* C13 (all-or-nothing environmental sample): when each access to the driver
\* returned a value or raised RuntimeError, _read_sensors returns temperature
\* and humidity both present or both None; after a RuntimeError both are
\* None, also when the temperature had been read.
C13_AllOrNothing ==
    (pc = "check" /\ cyc.temp # None /\ cyc.hum # None) =>
        /\ (sensor_data.temperature = None) <=> (sensor_data.humidity = None)
        /\ sensor_data.temperature \in TempVals \cup {None}
        /\ sensor_data.humidity \in HumVals \cup {None}
        /\ cyc.envRaised =>
              (sensor_data.temperature = None /\ sensor_data.humidity = None)

\* the temperature was read, the humidity access raised, both are None
C13_Witness ==
    /\ pc = "check" /\ cyc.envRaised
    /\ cyc.temp \in TempVals /\ cyc.hum = Unbound
    /\ sensor_data.temperature = None /\ sensor_data.humidity = None

\* C14 (record freshness): the row appended in a cycle carries the clock of
\* that cycle, true_ppm = 100, the temperature and humidity the driver
\* returned in that cycle and, for every channel, the value read from it in
\* that cycle (as read, or divided by 64).
C14_RecordFreshness ==
    \A i \in 1..Len(file.lines) :
        (IsRow(file.lines[i]) /\ Timestamp(file.lines[i]) = cycle
           /\ cyc.rows = 1) =>
            LET row == file.lines[i].cells
            IN /\ row[2] = <<"true_ppm", 100>>
               /\ row[3][2].val = cyc.temp.val /\ cyc.temp \in TempVals
               /\ row[4][2].val = cyc.hum.val /\ cyc.hum \in HumVals
               /\ Len(row) = 4 + Len(cyc.read16)
               /\ \A j \in 1..Len(cyc.read16) :
                     row[4 + j][2] \in {cyc.read16[j], cyc.read16[j] \div 64}

\* the second cycle appended its row after a skipped cycle that had read
\* other channel values
C14_Witness ==
    /\ cycle = 2 /\ cyc.rows = 1 /\ Len(file.lines) >= 1
    /\ past.branch = "skipped"
    /\ past.read16 # <<>> /\ past.read16[1] # cyc.read16[1]
    /\ Timestamp(file.lines[Len(file.lines)]) = 2

\* C15 (fault classification): a cycle whose environmental read raised the
\* sensor error, and in which nothing else raised, logs warnings only and
\* never enters the except clause of the loop; a cycle in which the append or
\* anything else raised has logged an error once the except clause is done.
C15_FaultClassification ==
    /\ (cyc.envRaised /\ cyc.branch # "caught") =>
          /\ pc # "except"
          /\ \A i \in 1..Len(log) : log[i] \in {"warning_dht", "warning_skip"}
    /\ (cyc.branch = "caught" /\ pc \in {"sleep_end", "loop_top"}) =>
          \E i \in 1..Len(log) : log[i] = "error"

\* a cycle with a failed environmental read ended with two warnings
C15_Witness ==
    /\ CycleOver /\ cyc.envRaised
    /\ log = <<"warning_dht", "warning_skip">>

\* C16 (sleep fault): when time.sleep raises, in the skip branch or at the
\* end of the cycle, the loop does not terminate.
C16_SleepFaultAbsorbed == ~intervalOk => pc # "terminated"

\* C17 (no multi-writer protection): two collectors on the same absent path
\* can both decide that a header is owed before either has appended; whenever
\* they did and both have appended, the file holds two header rows, the
\* second one below a data row.
C17_TwoWriters ==
    (runh.rows >= 1 /\ w2.rows >= 1 /\ runh.firstArg /\ w2.firstArg) =>
        /\ HeaderCount(file) = 2
        /\ IsHeader(file.lines[1])
        /\ \E i \in 2..Len(file.lines) :
              IsHeader(file.lines[i]) /\ IsRow(file.lines[i - 1])

\* both processes have appended one row and each wrote a header
C17_Witness ==
    /\ runh.rows = 1 /\ w2.rows = 1
    /\ runh.firstArg /\ w2.firstArg
    /\ Len(file.lines) = 4
    /\ HeaderCount(file) = 2

\* C18 (no absent reading in a row): no row of the file has an absent temp_c
\* or hum_pct, and a cycle that appended a row obtained both values, whether
\* the driver raised or returned None without raising.
C18_NoAbsentReading ==
    /\ \A i \in 1..Len(file.lines) :
          IsRow(file.lines[i]) =>
              /\ file.lines[i].cells[3][1] = "temp_c"
              /\ file.lines[i].cells[3][2] # None
              /\ file.lines[i].cells[4][1] = "hum_pct"
              /\ file.lines[i].cells[4][2] # None
    /\ cyc.rows >= 1 =>
          /\ cyc.temp \in TempVals
          /\ cyc.hum \in HumVals
          /\ ~cyc.envRaised

\* the driver returned None for a value without raising in the first
\* cycle, which was skipped; the second cycle appended the only row
C18_Witness ==
    /\ cycle = 2 /\ pc = "sleep_end"
    /\ past.branch = "skipped" /\ ~past.envRaised
    /\ cyc.rows = 1
    /\ \E i \in 1..Len(file.lines) : IsRow(file.lines[i])
    /\ \A i \in 1..Len(file.lines) :
          IsRow(file.lines[i]) => Timestamp(file.lines[i]) = 2

\* C19 (truthful info event): whenever "Logged new data point" has been
\* emitted in a cycle, that cycle's row is already in the file, and a cycle
\* whose append failed has emitted no such event.
C19_InfoTruthful ==
    (\E i \in 1..Len(log) : log[i] = "info_logged") =>
        /\ cyc.rows = 1
        /\ cyc.branch = "appended"
        /\ cycle \notin dropped

\* data_collection.py emits the event after to_csv has returned
InfoAfterAppend ==
    (variant = "data_collection"
       /\ \E i \in 1..Len(log) : log[i] = "info_logged") =>
        cyc.rows = 1 /\ cyc.branch = "appended"

====
